---- MODULE Spec2Model ----
(***************************************************************************)
(* Model of obsidian-plugin-format-prettier (src/src/main.ts):             *)
(*   - the position codec (positionToCursorOffset, cursorOffsetToPosition) *)
(*   - the format orchestrator (formatDocument, formatSelection, format)   *)
(*   - the save-command interception (hookIntoSaveCmd)                     *)
(* Text is a sequence of one-character strings; NL is the newline.         *)
(***************************************************************************)
EXTENDS Integers, Sequences, FiniteSets, TLC

NL == "\n"

\* ------------------------------------------------------------------ bounds
\* longest text of the codec specification
MaxLen == 3
\* largest line / column of a position handed to positionToCursorOffset
MaxCoord == 3
\* longest text the editor holds and the engine returns
MaxText == 2
\* format invocations suspended at the engine at the same time
MaxInFlight == 1
\* times onload runs against the same host
MaxLoads == 1
\* The overlap and settings specifications: suspended invocations at a time,
\* runs of onload, and characters in the buffer.
MaxOverlap == 2
MaxReloads == 2
MaxNote == 1

\* ------------------------------------------------------- string primitives
Chars == {"a", NL}

RECURSIVE TextsOfLen(_)
TextsOfLen(n) ==
  IF n = 0 THEN {<<>>}
  ELSE {Append(t, c) : t \in TextsOfLen(n - 1), c \in Chars}

TextsUpTo(n) == UNION {TextsOfLen(k) : k \in 0..n}

Min(a, b) == IF a < b THEN a ELSE b
Max(a, b) == IF a > b THEN a ELSE b

\* String.prototype.slice(0, end): a negative end counts from the end of the
\* string, an end past the string is the string's length.
Slice0(s, end) ==
  LET e == IF end < 0 THEN Max(Len(s) + end, 0) ELSE Min(end, Len(s))
  IN SubSeq(s, 1, e)

\* String.prototype.split("\n"): the lines of s, without their newlines; the
\* empty string has the one line "".
RECURSIVE SplitFrom(_, _, _)
SplitFrom(s, i, cur) ==
  IF i > Len(s) THEN <<cur>>
  ELSE IF s[i] = NL THEN <<cur>> \o SplitFrom(s, i + 1, <<>>)
  ELSE SplitFrom(s, i + 1, Append(cur, s[i]))

Split(s) == SplitFrom(s, 1, <<>>)

\* String.prototype.lastIndexOf("\n"): zero-based index of the last newline,
\* -1 when there is none.
RECURSIVE LastIndexFrom(_, _)
LastIndexFrom(s, i) ==
  IF i = 0 THEN -1
  ELSE IF s[i] = NL THEN i - 1
  ELSE LastIndexFrom(s, i - 1)

LastIndexOfNL(s) == LastIndexFrom(s, Len(s))

\* ------------------------------------------------------------ position codec
\* The callback of the reduce in positionToCursorOffset, for the line with
\* zero-based index `index`.
ReduceStep_NoNewline(pos, currLine, index, line, ch) ==
  IF index < line THEN pos + Len(currLine)
  ELSE IF index = line THEN pos + ch
  ELSE pos

ReduceStep(pos, currLine, index, line, ch) ==
  IF index < line THEN pos + Len(currLine) + 1
  ELSE IF index = line THEN pos + ch
  ELSE pos

\* Array.prototype.reduce over the lines, left to right, from `pos`.
RECURSIVE ReduceLines(_, _, _, _, _)
ReduceLines(lines, k, pos, line, ch) ==
  IF k > Len(lines) THEN pos
  ELSE ReduceLines(lines, k + 1, ReduceStep(pos, lines[k], k - 1, line, ch), line, ch)

positionToCursorOffset(code, position) ==
  ReduceLines(Split(code), 1, 0, position.line, position.ch)

cursorOffsetToPosition_LineStart(code, cursorOffset) ==
  LET substring == Slice0(code, cursorOffset)
      line == Len(Split(substring)) - 1
  IN [line |-> line, ch |-> 0]

cursorOffsetToPosition_CountsAllLines(code, cursorOffset) ==
  LET substring == Slice0(code, cursorOffset)
      line == Len(Split(code)) - 1
      indexOfLastLine == LastIndexOfNL(substring)
  IN [line |-> line, ch |-> cursorOffset - indexOfLastLine - 1]

cursorOffsetToPosition(code, cursorOffset) ==
  LET substring == Slice0(code, cursorOffset)
      line == Len(Split(substring)) - 1
      indexOfLastLine == LastIndexOfNL(substring)
  IN [line |-> line, ch |-> cursorOffset - indexOfLastLine - 1]

\* A position the editor's own cursor API can return for `code`: a line of
\* the text and a column within that line (the caret may sit after its last
\* character).
ValidPosition(code, p) ==
  /\ p.line \in 0..(Len(Split(code)) - 1)
  /\ p.ch \in 0..Len(Split(code)[p.line + 1])

ValidPositions(code) ==
  {p \in [line : 0..Len(code), ch : 0..Len(code)] : ValidPosition(code, p)}

\* ------------------------------------------------------------------- state
VARIABLES
  editor,    \* the host editor: value, selection (anchor, head = cursor), scroll
  view,      \* TRUE iff a MarkdownView is the active view
  settings,  \* PrettierPlugin.settings
  data,      \* the plugin's stored data: what loadData() returns
  config,    \* the vault's configuration: what vault.getConfig reads
  wrappers,  \* wrappers hookIntoSaveCmd has put around the save callback
  pending,   \* format invocations suspended at their await, by slot
  last,      \* the last step taken: its operation, calls made, promise
  codec      \* the codec specification's state

vars == <<editor, view, settings, data, config, wrappers, pending, last, codec>>

\* ------------------------------------------------- the codec specification
\* The buffer of the concrete scenario: a, newline, bb, newline, ccc.
Scenario1 == <<"a", NL, "b", "b", NL, "c", "c", "c">>

CodecTexts == TextsUpTo(MaxLen) \cup {Scenario1}

NoPos == [line |-> -1, ch |-> -1]

\* The codec at rest: the state of `codec` in the orchestrator's behaviours.
CodecIdle ==
  [code |-> <<>>, from |-> "none", o0 |-> 0, p0 |-> NoPos,
   off |-> 0, pos |-> NoPos, done |-> <<>>]

\* A conversion starts from an offset inside the buffer, or from any position
\* (the code validates neither).
CodecStarts ==
  {[code |-> c, from |-> "offset", o0 |-> o, p0 |-> NoPos,
    off |-> o, pos |-> NoPos, done |-> <<>>] :
      c \in CodecTexts, o \in 0..Len(Scenario1)} \cup
  {[code |-> c, from |-> "position", o0 |-> 0, p0 |-> p,
    off |-> 0, pos |-> p, done |-> <<>>] :
      c \in CodecTexts, p \in [line : 0..MaxCoord, ch : 0..MaxCoord]}

ToPosition ==
  /\ \/ codec.from = "offset" /\ codec.done = <<>>
     \/ codec.from = "position" /\ codec.done = <<"toOffset">>
  /\ codec' = [codec EXCEPT
       !.pos = cursorOffsetToPosition(codec.code, codec.off),
       !.done = Append(@, "toPosition")]
  /\ UNCHANGED <<editor, view, settings, data, config, wrappers, pending, last>>

ToOffset ==
  /\ \/ codec.from = "position" /\ codec.done = <<>>
     \/ codec.from = "offset" /\ codec.done = <<"toPosition">>
  /\ codec' = [codec EXCEPT
       !.off = positionToCursorOffset(codec.code, codec.pos),
       !.done = Append(@, "toOffset")]
  /\ UNCHANGED <<editor, view, settings, data, config, wrappers, pending, last>>

\* ------------------------------------------------------------ host editor
Texts == TextsUpTo(MaxText)

\* Scroll offsets are opaque to the plugin: it copies them, never computes.
Scrolls == {[left |-> 0, top |-> 0], [left |-> 0, top |-> 1]}

\* The host's own index of a position (CodeMirror's indexFromPos).
HostIndex(value, p) ==
  LET lines == Split(value)
      RECURSIVE Before(_)
      Before(k) == IF k = 0 THEN 0 ELSE Before(k - 1) + Len(lines[k]) + 1
  IN Before(p.line) + p.ch

HostFrom(ed) == Min(HostIndex(ed.value, ed.anchor), HostIndex(ed.value, ed.head))
HostTo(ed) == Max(HostIndex(ed.value, ed.anchor), HostIndex(ed.value, ed.head))

\* The host's own position of an index (CodeMirror's posFromIndex).
HostPos(value, i) ==
  CHOOSE p \in ValidPositions(value) : HostIndex(value, p) = i

FormatKind == [document |-> 0, selection |-> 1]

\* One call made during a step, with its arguments.
Call(op) ==
  [op |-> op, text |-> <<>>, pos |-> NoPos, scroll |-> {}, n |-> -1, opts |-> {}]
CallText(op, text) == [Call(op) EXCEPT !.text = text]

EditorWrites == {"setValue", "setCursor", "scrollTo", "replaceSelection"}
EditorReads == {"getValue", "getCursor", "getSelection", "getScrollInfo"}
EngineCalls == {"prettierFormatWithCursor", "prettierFormat"}

\* The machine a step of the plugin runs on: the editor, the suspended
\* invocations, the calls made so far in the step, and the promise the step's
\* entry point returns.
Log(m, call) == [m EXCEPT !.calls = Append(@, call)]

Resolved == [state |-> "resolved", err |-> "", slot |-> 0]
Rejected(err) == [state |-> "rejected", err |-> err, slot |-> 0]
Awaiting(slot) == [state |-> "pending", err |-> "", slot |-> slot]

Free == [kind |-> -1, text |-> <<>>, cursorOffset |-> -1]
Slots == 1..MaxInFlight
FreeSlots(p) == {i \in DOMAIN p : p[i] = Free}
InFlight(p) == DOMAIN p \ FreeSlots(p)

\* Editor.getValue / getCursor / getSelection / getScrollInfo: what they
\* return; the caller logs the call.
getValue(m) == m.ed.value
getCursor(m) == m.ed.head
getSelection(m) == SubSeq(m.ed.value, HostFrom(m.ed) + 1, HostTo(m.ed))
getScrollInfo(m) == m.ed.scroll

\* Editor.setValue: replaces the whole content; the selection collapses to
\* the start; the host may reset the scroll offset (m.reset).
setValue(m, text) ==
  Log([m EXCEPT !.ed.value = text,
                !.ed.anchor = [line |-> 0, ch |-> 0],
                !.ed.head = [line |-> 0, ch |-> 0],
                !.ed.scroll = IF m.reset THEN [left |-> 0, top |-> 0] ELSE @],
      CallText("setValue", text))

\* Editor.setCursor: collapses the selection to pos.
setCursor(m, pos) ==
  Log([m EXCEPT !.ed.anchor = pos, !.ed.head = pos],
      [Call("setCursor") EXCEPT !.pos = pos])

\* Editor.scrollTo.
scrollTo(m, left, top) ==
  Log([m EXCEPT !.ed.scroll = [left |-> left, top |-> top]],
      [Call("scrollTo") EXCEPT !.scroll = {[left |-> left, top |-> top]}])

\* Editor.replaceSelection: replaces the selected range; the caret ends up
\* after the inserted text.
replaceSelection(m, text) ==
  LET v == m.ed.value
      nv == SubSeq(v, 1, HostFrom(m.ed)) \o text \o SubSeq(v, HostTo(m.ed) + 1, Len(v))
      np == HostPos(nv, HostFrom(m.ed) + Len(text))
  IN Log([m EXCEPT !.ed.value = nv, !.ed.anchor = np, !.ed.head = np],
         CallText("replaceSelection", text))

\* ---------------------------------------------------------------- plugin
DEFAULT_SETTINGS ==
  [formatOnSave |-> FALSE, embeddedLanguageFormatting |-> FALSE,
   proseWrap |-> "preserve", printWidth |-> 80]

\* `{} as PrettierPluginSettings`: the settings before onload.
EmptyObject == [k \in {} |-> FALSE]

\* Object.assign({}, a, b)
Assign(a, b) ==
  [k \in DOMAIN a \cup DOMAIN b |-> IF k \in DOMAIN b THEN b[k] ELSE a[k]]

\* What loadData() can return: nothing stored, or a stored record.
PersistedData ==
  {EmptyObject} \cup {[formatOnSave |-> b] : b \in BOOLEAN}

loadSettings_DefaultsWin(stored) ==
  Assign(Assign(EmptyObject, stored), DEFAULT_SETTINGS)

loadSettings(stored) == Assign(Assign(EmptyObject, DEFAULT_SETTINGS), stored)

\* The values the settings tab offers: the ProseWrap options and two stops of
\* the print-width slider.
ProseWrap == {"always", "never", "preserve"}
PrintWidths == {80, 120}

Restrict(r, keys) == [k \in keys |-> r[k]]

\* Stored data of any version of the plugin: any of the keys may be missing.
StoredData ==
  {Restrict(r, keys) :
     r \in [formatOnSave : BOOLEAN, embeddedLanguageFormatting : BOOLEAN,
            proseWrap : ProseWrap, printWidth : PrintWidths],
     keys \in SUBSET DOMAIN DEFAULT_SETTINGS}

\* The vault's configuration: either key may be unset.
VaultConfigs ==
  {Restrict([useTabs |-> TRUE, tabSize |-> 2], keys) :
     keys \in SUBSET {"useTabs", "tabSize"}}

\* getPrettierSettings(): built from the settings and the vault's
\* configuration as they are at the call.
getPrettierSettings_IgnoresVault ==
  [embeddedLanguageFormatting |->
     IF settings["embeddedLanguageFormatting"] THEN "auto" ELSE "off",
   proseWrap |-> settings["proseWrap"],
   printWidth |-> settings["printWidth"],
   useTabs |-> FALSE,
   tabWidth |-> 4]

getPrettierSettings ==
  LET embeddedLanguageFormatting ==
        IF settings["embeddedLanguageFormatting"] THEN "auto" ELSE "off"
      useTabs == IF "useTabs" \in DOMAIN config THEN config["useTabs"] ELSE FALSE
      tabWidth == IF "tabSize" \in DOMAIN config THEN config["tabSize"] ELSE 4
  IN [embeddedLanguageFormatting |-> embeddedLanguageFormatting,
      proseWrap |-> settings["proseWrap"],
      printWidth |-> settings["printWidth"],
      useTabs |-> useTabs,
      tabWidth |-> tabWidth]

\* `if (this.settings.formatOnSave)`: undefined is falsy.
FormatOnSave == "formatOnSave" \in DOMAIN settings /\ settings["formatOnSave"]

\* Suspends the invocation at its await, in the lowest free slot.
Suspend(m, inv) ==
  LET slot == CHOOSE i \in FreeSlots(m.pending) :
                \A j \in FreeSlots(m.pending) : i <= j
  IN [m EXCEPT !.pending[slot] = inv, !.promise = Awaiting(slot),
                !.started = @ \cup {slot}]

\* formatDocument up to its await (lines 232-241).
formatDocumentStart_SetsCursorFirst(m) ==
  LET text == getValue(m)
      cursor == getCursor(m)
      position == positionToCursorOffset(text, cursor)
      m1 == setCursor(Log(Log(m, Call("getValue")), Call("getCursor")), cursor)
      m2 == Log(m1, [CallText("prettierFormatWithCursor", text) EXCEPT
                       !.n = position, !.opts = {getPrettierSettings}])
  IN Suspend(m2, [kind |-> FormatKind.document, text |-> text,
                  cursorOffset |-> position])

formatDocumentStart(m) ==
  LET text == getValue(m)
      cursor == getCursor(m)
      position == positionToCursorOffset(text, cursor)
      m1 == Log(Log(m, Call("getValue")), Call("getCursor"))
      m2 == Log(m1, [CallText("prettierFormatWithCursor", text) EXCEPT
                       !.n = position, !.opts = {getPrettierSettings}])
  IN Suspend(m2, [kind |-> FormatKind.document, text |-> text,
                  cursorOffset |-> position])

\* formatDocument after its await resolved (lines 242-251).
formatDocumentResume_NoShortCircuit(m, inv, formatted, cursorOffset) ==
  LET si == getScrollInfo(m)
      m1 == Log(m, Call("getScrollInfo"))
      m2 == setValue(m1, formatted)
      m3 == setCursor(m2, cursorOffsetToPosition(formatted, cursorOffset))
      m4 == scrollTo(m3, si.left, si.top)
  IN [m4 EXCEPT !.promise = Resolved]

formatDocumentResume_RequestedOffset(m, inv, formatted, cursorOffset) ==
  IF formatted = inv.text
  THEN [m EXCEPT !.promise = Resolved]
  ELSE LET si == getScrollInfo(m)
           m1 == Log(m, Call("getScrollInfo"))
           m2 == setValue(m1, formatted)
           m3 == setCursor(m2, cursorOffsetToPosition(formatted, inv.cursorOffset))
           m4 == scrollTo(m3, si.left, si.top)
       IN [m4 EXCEPT !.promise = Resolved]

formatDocumentResume_ScrollCapturedLate(m, inv, formatted, cursorOffset) ==
  IF formatted = inv.text
  THEN [m EXCEPT !.promise = Resolved]
  ELSE LET m1 == setValue(m, formatted)
           si == getScrollInfo(m1)
           m2 == Log(m1, Call("getScrollInfo"))
           m3 == setCursor(m2, cursorOffsetToPosition(formatted, cursorOffset))
           m4 == scrollTo(m3, si.left, si.top)
       IN [m4 EXCEPT !.promise = Resolved]

formatDocumentResume_ComparesBuffer(m, inv, formatted, cursorOffset) ==
  IF formatted = getValue(m)
  THEN [m EXCEPT !.promise = Resolved]
  ELSE LET si == getScrollInfo(m)
           m1 == Log(m, Call("getScrollInfo"))
           m2 == setValue(m1, formatted)
           m3 == setCursor(m2, cursorOffsetToPosition(formatted, cursorOffset))
           m4 == scrollTo(m3, si.left, si.top)
       IN [m4 EXCEPT !.promise = Resolved]

formatDocumentResume(m, inv, formatted, cursorOffset) ==
  IF formatted = inv.text
  THEN [m EXCEPT !.promise = Resolved]
  ELSE LET si == getScrollInfo(m)
           m1 == Log(m, Call("getScrollInfo"))
           m2 == setValue(m1, formatted)
           m3 == setCursor(m2, cursorOffsetToPosition(formatted, cursorOffset))
           m4 == scrollTo(m3, si.left, si.top)
       IN [m4 EXCEPT !.promise = Resolved]

\* formatSelection up to its await (lines 255-260).
formatSelectionStart(m) ==
  LET text == getSelection(m)
      m1 == Log(m, Call("getSelection"))
      m2 == Log(m1, [CallText("prettierFormat", text) EXCEPT
                       !.opts = {getPrettierSettings}])
  IN Suspend(m2, [kind |-> FormatKind.selection, text |-> text,
                  cursorOffset |-> -1])

\* formatSelection after its await resolved (lines 261-265).
formatSelectionResume_WholeBuffer(m, inv, formatted) ==
  IF formatted = inv.text
  THEN [m EXCEPT !.promise = Resolved]
  ELSE [setValue(m, formatted) EXCEPT !.promise = Resolved]

formatSelectionResume(m, inv, formatted) ==
  IF formatted = inv.text
  THEN [m EXCEPT !.promise = Resolved]
  ELSE [replaceSelection(m, formatted) EXCEPT !.promise = Resolved]

\* Either operation when its await throws: nothing catches, the promise of the
\* operation rejects with the engine's error.
formatRejected_Caught(m, inv, err) == [m EXCEPT !.promise = Resolved]

formatRejected(m, inv, err) == [m EXCEPT !.promise = Rejected(err)]

format_Exclusive(m, kind) ==
  LET m1 == Log(m, Call("getActiveViewOfType"))
  IN IF view /\ InFlight(m.pending) = {}
     THEN IF kind = FormatKind.document THEN formatDocumentStart(m1)
          ELSE formatSelectionStart(m1)
     ELSE [m1 EXCEPT !.promise = Resolved]

format_IgnoresView(m, kind) ==
  LET m1 == Log(m, Call("getActiveViewOfType"))
  IN IF kind = FormatKind.document THEN formatDocumentStart(m1)
     ELSE formatSelectionStart(m1)

\* format(kind, editor); it returns the operation's own promise.
format(m, kind) ==
  LET m1 == Log(m, Call("getActiveViewOfType"))
  IN IF view
     THEN IF kind = FormatKind.document THEN formatDocumentStart(m1)
          ELSE formatSelectionStart(m1)
     ELSE [m1 EXCEPT !.promise = Resolved]

\* The host's original callback of editor:save-file.
save(m) == Log(m, CallText("save", m.ed.value))

\* The callback hookIntoSaveCmd installs (lines 290-297), around the callback
\* that was there before: `depth` wrappers around the original.
RECURSIVE saveCallback_SaveUnlessFormatting(_, _)
saveCallback_SaveUnlessFormatting(m, depth) ==
  IF depth = 0 THEN save(m)
  ELSE IF FormatOnSave
       THEN LET m2 == Log(m, Call("getActiveViewOfType"))
            IN IF view THEN [format(m2, FormatKind.document) EXCEPT !.promise = Resolved]
               ELSE m2
       ELSE saveCallback_SaveUnlessFormatting(m, depth - 1)

RECURSIVE saveCallback_IgnoresFlag(_, _)
saveCallback_IgnoresFlag(m, depth) ==
  IF depth = 0 THEN save(m)
  ELSE LET m2 == Log(m, Call("getActiveViewOfType"))
           m1 == IF view THEN format(m2, FormatKind.document) ELSE m2
       IN saveCallback_IgnoresFlag([m1 EXCEPT !.promise = Resolved], depth - 1)

RECURSIVE saveCallback(_, _)
saveCallback(m, depth) ==
  IF depth = 0 THEN save(m)
  ELSE LET m1 == IF FormatOnSave
                 THEN LET m2 == Log(m, Call("getActiveViewOfType"))
                      IN IF view THEN format(m2, FormatKind.document) ELSE m2
                 ELSE m
       IN saveCallback([m1 EXCEPT !.promise = Resolved], depth - 1)

\* ------------------------------------------------------------ the machine
Errors == {"SyntaxError", "UndefinedParserError"}

\* What the engine answered in the step: a result, or an error.
NoResponse == [formatted |-> <<>>, cursorOffset |-> -1, err |-> ""]
Formatted(formatted, cursorOffset) ==
  [formatted |-> formatted, cursorOffset |-> cursorOffset, err |-> ""]
Threw(err) == [formatted |-> <<>>, cursorOffset |-> -1, err |-> err]

\* The machine a step starts on.
Machine(reset) ==
  [ed |-> editor, pending |-> pending, calls |-> <<>>, promise |-> Resolved,
   started |-> {}, reset |-> reset]

\* What a step leaves behind: the editor, the suspended invocations, and the
\* record of the step in `last`.
Step(op, kind, inv, response, m) ==
  /\ editor' = m.ed
  /\ pending' = m.pending
  /\ last' = [op |-> op, kind |-> kind, inv |-> inv, response |-> response,
              calls |-> m.calls, promise |-> m.promise, started |-> m.started]

\* The state after the host has constructed the plugin: nothing loaded, no
\* wrapper, nothing in flight; the stored data is whatever an earlier run left.
Start(slots, stored) ==
  /\ editor = [value |-> <<>>, anchor |-> [line |-> 0, ch |-> 0],
               head |-> [line |-> 0, ch |-> 0], scroll |-> [left |-> 0, top |-> 0]]
  /\ view = TRUE
  /\ settings = EmptyObject
  /\ data \in stored
  /\ config = EmptyObject
  /\ wrappers = 0
  /\ pending = [i \in slots |-> Free]
  /\ last = [op |-> "init", kind |-> -1, inv |-> Free, response |-> NoResponse,
             calls |-> <<>>, promise |-> Resolved, started |-> {}]

Init == Start(Slots, PersistedData) /\ codec = CodecIdle

\* onload: loadSettings, then the commands and the settings tab are
\* registered and hookIntoSaveCmd wraps the save command's callback.
OnloadUpTo(n) ==
  /\ wrappers < n
  /\ settings' = loadSettings(data)
  /\ wrappers' = wrappers + 1
  /\ Step("onload", -1, Free, NoResponse, Log(Machine(FALSE), Call("loadData")))
  /\ UNCHANGED <<view, data, config, codec>>

Onload == OnloadUpTo(MaxLoads)

\* A handler of the settings tab: onChange(value) sets the field and awaits
\* saveSettings().
Change(key, value) ==
  /\ wrappers > 0
  /\ settings' = [settings EXCEPT ![key] = value]
  /\ data' = settings'
  /\ Step("setting", -1, Free, NoResponse, Log(Machine(FALSE), Call("saveData")))
  /\ UNCHANGED <<view, config, wrappers, codec>>

\* The settings tab's toggle "Format on Save".
ToggleFormatOnSave == \E value \in BOOLEAN : Change("formatOnSave", value)

\* The toggle "Format code blocks in Markdown".
ToggleEmbeddedLanguageFormatting ==
  \E value \in BOOLEAN : Change("embeddedLanguageFormatting", value)

\* The dropdown "Prose Wrap".
SelectProseWrap == \E value \in ProseWrap : Change("proseWrap", value)

\* The slider "Print Width".
SlidePrintWidth == \E value \in PrintWidths : Change("printWidth", value)

\* The user changes the indentation settings of the vault.
ConfigChanges ==
  /\ \E c \in VaultConfigs \ {config} : config' = c
  /\ Step("user", -1, Free, NoResponse, Machine(FALSE))
  /\ UNCHANGED <<view, settings, data, wrappers, codec>>

\* One of the two commands: editorCallback -> format(kind, editor).
FormatCommand ==
  /\ wrappers > 0
  /\ FreeSlots(pending) # {}
  /\ \E kind \in {FormatKind.document, FormatKind.selection} :
       Step("format", kind, Free, NoResponse, format(Machine(FALSE), kind))
  /\ UNCHANGED <<view, settings, data, config, wrappers, codec>>

\* The user runs editor:save-file: the callback the command now has.
SaveCommand ==
  /\ (FormatOnSave /\ view) => Cardinality(FreeSlots(pending)) >= wrappers
  /\ Step("save", -1, Free, NoResponse, saveCallback(Machine(FALSE), wrappers))
  /\ UNCHANGED <<view, settings, data, config, wrappers, codec>>

\* The engine resolves a suspended invocation: its continuation runs. The
\* buffer stays within n characters.
EngineResolvesWithin(n) ==
  \E slot \in InFlight(pending), formatted \in TextsUpTo(n), reset \in BOOLEAN :
    LET inv == pending[slot]
        m == [Machine(reset) EXCEPT !.pending[slot] = Free]
    IN /\ \/ /\ inv.kind = FormatKind.document
             /\ \E cursorOffset \in 0..Len(formatted) :
                  Step("resume", inv.kind, inv,
                       Formatted(formatted, cursorOffset),
                       formatDocumentResume(m, inv, formatted, cursorOffset))
          \/ /\ inv.kind = FormatKind.selection
             /\ ~reset
             /\ Len(editor.value) - Len(getSelection(m)) + Len(formatted) <= n
             /\ Step("resume", inv.kind, inv,
                     Formatted(formatted, -1),
                     formatSelectionResume(m, inv, formatted))
       /\ UNCHANGED <<view, settings, data, config, wrappers, codec>>

EngineResolves == EngineResolvesWithin(MaxText)

\* The engine rejects a suspended invocation.
EngineRejects ==
  \E slot \in InFlight(pending), err \in Errors :
    LET inv == pending[slot]
        m == [Machine(FALSE) EXCEPT !.pending[slot] = Free]
    IN /\ Step("reject", inv.kind, inv, Threw(err), formatRejected(m, inv, err))
       /\ UNCHANGED <<view, settings, data, config, wrappers, codec>>

\* The user moves the caret or selects.
UserSelects ==
  /\ \E a \in ValidPositions(editor.value), h \in ValidPositions(editor.value) :
       Step("user", -1, Free, NoResponse,
            [Machine(FALSE) EXCEPT !.ed.anchor = a, !.ed.head = h])
  /\ UNCHANGED <<view, settings, data, config, wrappers, codec>>

\* The user types a character over the selection, or deletes the selection.
\* The buffer stays within n characters.
UserTypesWithin(n) ==
  /\ \E t \in TextsUpTo(1) :
       /\ Len(editor.value) - (HostTo(editor) - HostFrom(editor)) + Len(t) <= n
       /\ t # getSelection(Machine(FALSE))
       /\ Step("user", -1, Free, NoResponse,
               [replaceSelection(Machine(FALSE), t) EXCEPT !.calls = <<>>])
  /\ UNCHANGED <<view, settings, data, config, wrappers, codec>>

UserTypes == UserTypesWithin(MaxText)

\* The user scrolls.
UserScrolls ==
  /\ \E s \in Scrolls \ {editor.scroll} :
       Step("user", -1, Free, NoResponse, [Machine(FALSE) EXCEPT !.ed.scroll = s])
  /\ UNCHANGED <<view, settings, data, config, wrappers, codec>>

\* The user switches to or away from a Markdown view.
SwitchView ==
  /\ view' = ~view
  /\ Step("user", -1, Free, NoResponse, Machine(FALSE))
  /\ UNCHANGED <<settings, data, config, wrappers, codec>>

Next ==
  \/ Onload
  \/ ToggleFormatOnSave
  \/ FormatCommand
  \/ SaveCommand
  \/ EngineResolves
  \/ EngineRejects
  \/ UserSelects
  \/ UserTypes
  \/ UserScrolls
  \/ SwitchView

Spec == Init /\ [][Next]_vars

\* The codec alone: conversions of bounded buffers, offsets and positions.
InitCodec == Start(Slots, {EmptyObject}) /\ codec \in CodecStarts

NextCodec == ToPosition \/ ToOffset

SpecCodec == InitCodec /\ [][NextCodec]_vars

\* Overlap: two invocations in flight, onload run twice, a one-character
\* buffer.
InitOverlap == Start(1..MaxOverlap, PersistedData) /\ codec = CodecIdle

Reload == OnloadUpTo(MaxReloads)
EngineResolvesNote == EngineResolvesWithin(MaxNote)
UserTypesNote == UserTypesWithin(MaxNote)

NextOverlap ==
  \/ Reload
  \/ ToggleFormatOnSave
  \/ FormatCommand
  \/ SaveCommand
  \/ EngineResolvesNote
  \/ EngineRejects
  \/ UserSelects
  \/ UserTypesNote
  \/ UserScrolls
  \/ SwitchView

SpecOverlap == InitOverlap /\ [][NextOverlap]_vars

\* Settings: any stored data, every handler of the settings tab, the vault's
\* configuration changing, onload run twice; the buffer changes by formatting
\* alone.
InitSettings == Start(Slots, StoredData) /\ codec = CodecIdle

NextSettings ==
  \/ Reload
  \/ ToggleFormatOnSave
  \/ ToggleEmbeddedLanguageFormatting
  \/ SelectProseWrap
  \/ SlidePrintWidth
  \/ ConfigChanges
  \/ FormatCommand
  \/ SaveCommand
  \/ EngineResolvesNote
  \/ EngineRejects

SpecSettings == InitSettings /\ [][NextSettings]_vars

\* ------------------------------------------------------------ properties
\* The editor's state is one the host can be in: the text is bounded, the
\* selection's ends are positions of the text.
TypeOK ==
  /\ editor.value \in Texts
  /\ ValidPosition(editor.value, editor.anchor)
  /\ ValidPosition(editor.value, editor.head)
  /\ editor.scroll \in Scrolls
  /\ wrappers \in 0..MaxLoads

CodecDone(from, steps) == codec.from = from /\ codec.done = steps

\* C1: round trip from offsets: for every buffer b and every offset o with
\* 0 <= o <= length(b), converting o to a position and the position back to
\* an offset gives o.
C1_RoundTripFromOffset ==
  (CodecDone("offset", <<"toPosition", "toOffset">>) /\ codec.o0 <= Len(codec.code))
    => codec.off = codec.o0

\* An offset behind a newline and inside a line has made the round trip.
C1_Witness ==
  /\ CodecDone("offset", <<"toPosition", "toOffset">>)
  /\ codec.o0 <= Len(codec.code)
  /\ codec.pos.line > 0 /\ codec.pos.ch > 0
  /\ codec.off = codec.o0

\* C2: round trip from positions: for every buffer b and every position p on
\* a line of b with a column within that line, converting p to an offset and
\* the offset back to a position gives p.
C2_RoundTripFromPosition ==
  (CodecDone("position", <<"toOffset", "toPosition">>)
     /\ ValidPosition(codec.code, codec.p0))
    => codec.pos = codec.p0

\* A position on a later line, at the end of a non-empty line, has made the
\* round trip.
C2_Witness ==
  /\ CodecDone("position", <<"toOffset", "toPosition">>)
  /\ ValidPosition(codec.code, codec.p0)
  /\ codec.p0.line > 0
  /\ codec.p0.ch = Len(Split(codec.code)[codec.p0.line + 1]) /\ codec.p0.ch > 0
  /\ codec.pos = codec.p0

\* The scenario's conversions: of the cursor {line 1, column 1} to `off`, and
\* of `off` back to `pos`.
ScenarioHolds(off, pos) ==
  /\ (codec.code = Scenario1 /\ codec.from = "position"
        /\ codec.p0 = [line |-> 1, ch |-> 1] /\ Len(codec.done) >= 1)
       => (codec.done[1] = "toOffset" /\ codec.off = off)
  /\ (codec.code = Scenario1 /\ codec.from = "offset"
        /\ codec.o0 = off /\ Len(codec.done) >= 1)
       => (codec.done[1] = "toPosition" /\ codec.pos = pos)

\* C3 as stated: in the buffer a, newline, bb, newline, ccc the cursor
\* {line 1, column 1} converts to offset 4, and offset 4 converts to
\* {line 1, column 1}.
C3_Scenario1_Stated == ScenarioHolds(4, [line |-> 1, ch |-> 1])

\* C3, amended: in the buffer a, newline, bb, newline, ccc the cursor
\* {line 1, column 1} converts to offset 3 (2 for the line "a" and its
\* newline, plus column 1), and offset 3 converts to {line 1, column 1}.
C3_Scenario1 == ScenarioHolds(3, [line |-> 1, ch |-> 1])

\* The scenario's cursor has been converted to its offset.
C3_Witness ==
  /\ codec.code = Scenario1 /\ codec.from = "position"
  /\ codec.p0 = [line |-> 1, ch |-> 1] /\ codec.done = <<"toOffset">>
  /\ codec.off = 3

\* ---- the orchestrator's claims
Document == FormatKind.document
Selection == FormatKind.selection

OpsOf(calls) == {calls[i].op : i \in DOMAIN calls}
CountOf(calls, op) == Cardinality({i \in DOMAIN calls : calls[i].op = op})

\* A resumed invocation whose engine result is the text it read.
ResumedSame(l) == l.op = "resume" /\ l.response.formatted = l.inv.text
\* A resumed invocation whose engine result differs from the text it read.
ResumedChanged(l, kind) ==
  l.op = "resume" /\ l.kind = kind /\ l.response.formatted # l.inv.text

\* C4: no-op preservation: when the engine returns the text the invocation
\* read (the buffer for the document, the selected text for the selection),
\* the invocation makes no editor write, and buffer, selection, cursor and
\* scroll offset are what they were before it resumed.
C4_NoOpPreservation ==
  [][ResumedSame(last') =>
        /\ OpsOf(last'.calls) \cap EditorWrites = {}
        /\ editor' = editor
        /\ last'.promise = Resolved]_vars

\* A document invocation on a non-empty buffer has resumed with the same text
\* while the scroll offset is not the top.
C4_Witness ==
  /\ ResumedSame(last) /\ last.kind = Document
  /\ last.inv.text # <<>> /\ editor.scroll.top # 0

\* C5: engine rejection: the operation's promise rejects with the engine's
\* own error, nothing is retried or written, and the editor is as it was;
\* no editor write precedes the engine call.
C5_EngineRejection ==
  [][/\ last'.op = "reject" =>
          /\ last'.promise = Rejected(last'.response.err)
          /\ last'.calls = <<>>
          /\ editor' = editor
          /\ InFlight(pending') \subseteq InFlight(pending)
          /\ InFlight(pending') # InFlight(pending)
     /\ last'.op \in {"format", "save"} =>
          /\ OpsOf(last'.calls) \cap EditorWrites = {}
          /\ editor' = editor]_vars

\* A selection invocation has been rejected by the engine.
C5_Witness ==
  /\ last.op = "reject" /\ last.kind = Selection
  /\ last.promise.state = "rejected" /\ last.promise.err \in Errors
  /\ last.inv.text # <<>>

\* C6: save interception is additive: every run of the wrapped save command
\* executes the original save exactly once, whatever the setting, the active
\* view and the engine's later answer; no other step executes it.
C6_SaveAdditive ==
  /\ (last.op = "save" /\ wrappers > 0) => CountOf(last.calls, "save") = 1
  /\ last.op # "save" => CountOf(last.calls, "save") = 0

\* The wrapped save command has run with format-on-save enabled and a
\* Markdown view active: it started a FormatDocument.
C6_Witness ==
  /\ last.op = "save" /\ wrappers > 0 /\ last.started # {}
  /\ CountOf(last.calls, "save") = 1

\* C7: save ordering: when the save command starts a FormatDocument, that
\* invocation has applied its result (or decided it is a no-op) by the time
\* the original save executes: it is no longer suspended at the engine.
C7_FormatAppliedBeforeSave ==
  (last.op = "save" /\ last.started # {})
    => last.started \cap InFlight(pending) = {}

\* The engine's result is the text with n >= 1 characters inserted at or
\* before offset off and nothing changed after them.
InsertsBefore(text, off, formatted, n) ==
  /\ Len(formatted) = Len(text) + n
  /\ \E k \in 0..Min(off, Len(text)) :
       /\ SubSeq(formatted, 1, k) = SubSeq(text, 1, k)
       /\ SubSeq(formatted, k + n + 1, Len(formatted)) = SubSeq(text, k + 1, Len(text))

CursorMovedBy(l, n) ==
  /\ l.op = "resume" /\ l.kind = Document
  /\ InsertsBefore(l.inv.text, l.inv.cursorOffset, l.response.formatted, n)
  /\ l.response.cursorOffset = l.inv.cursorOffset + n

\* C8: cursor stability: when the engine inserts n characters before the
\* cursor, changes nothing after it and returns the cursor offset moved by
\* n, the cursor set on the editor is the (line, column) of the formatted text
\* whose linear offset is the original offset + n.
C8_CursorStability ==
  \A n \in 1..MaxText :
    CursorMovedBy(last, n) =>
      /\ editor.value = last.response.formatted
      /\ ValidPosition(editor.value, editor.head)
      /\ HostIndex(editor.value, editor.head) = last.inv.cursorOffset + n
      /\ editor.anchor = editor.head
      /\ \E i \in DOMAIN last.calls :
           last.calls[i].op = "setCursor" /\ last.calls[i].pos = editor.head

\* A newline was inserted before a cursor that stood behind a character: the
\* cursor is now on the second line.
C8_Witness ==
  /\ CursorMovedBy(last, 1)
  /\ last.inv.cursorOffset > 0
  /\ editor.head.line = 1 /\ editor.head.ch = 1

\* C9: dispatch without an active Markdown view: format(kind, editor) skips
\* both kinds: no engine call, no editor read or write, nothing suspended,
\* the editor unchanged, and the call completes without error.
C9_NoActiveView ==
  [][(last'.op = "format" /\ ~view) =>
        /\ OpsOf(last'.calls) \cap (EditorWrites \cup EditorReads \cup EngineCalls) = {}
        /\ last'.promise = Resolved
        /\ last'.started = {}
        /\ pending' = pending
        /\ editor' = editor]_vars

\* The selection command has been dispatched with no Markdown view active,
\* on a buffer with a non-empty selection.
C9_Witness ==
  /\ last.op = "format" /\ last.kind = Selection /\ ~view
  /\ editor.anchor # editor.head
  /\ last.promise = Resolved

\* C10: FormatSelection: the engine receives the selected text alone, with no
\* cursor offset; when its result differs, replacing the selection with the
\* result is the only editor write: no setValue, setCursor or scrollTo, and
\* the text outside the selection and the scroll offset are unchanged.
C10_FormatSelectionEffect ==
  [][/\ (last'.op = "format" /\ last'.kind = Selection /\ view) =>
          /\ Len(last'.calls) = 3
          /\ last'.calls[1] = Call("getActiveViewOfType")
          /\ last'.calls[2] = Call("getSelection")
          /\ last'.calls[3].op = "prettierFormat"
          /\ last'.calls[3].text =
               SubSeq(editor.value, HostFrom(editor) + 1, HostTo(editor))
          /\ last'.calls[3].n = -1
          /\ editor' = editor
     /\ ResumedChanged(last', Selection) =>
          /\ last'.calls = << CallText("replaceSelection", last'.response.formatted) >>
          /\ editor'.value =
               SubSeq(editor.value, 1, HostFrom(editor))
                 \o last'.response.formatted
                 \o SubSeq(editor.value, HostTo(editor) + 1, Len(editor.value))
          /\ editor'.scroll = editor.scroll]_vars

\* A selection inside a longer buffer has been replaced by a different
\* result; the buffer keeps text that was outside the selection.
C10_Witness ==
  /\ ResumedChanged(last, Selection)
  /\ last.inv.text # <<>>
  /\ Len(editor.value) > Len(last.response.formatted)
  /\ last.calls = << CallText("replaceSelection", last.response.formatted) >>

\* ---- position validity
\* The newline characters among the first o characters of code.
NewlinesBefore(code, o) == Cardinality({i \in 1..o : code[i] = NL})

\* The offset at which the line holding offset o starts.
LineStartOf(code, o) ==
  LET nls == {i \in 1..o : code[i] = NL}
  IN IF nls = {} THEN 0 ELSE CHOOSE i \in nls : \A j \in nls : j <= i

\* C18: position validity: for every offset o in [0, length(b)],
\* cursorOffsetToPosition(b, o) has line = the newlines in b[0..o) and column
\* = the distance from o back to the start of its line: a line of b and a
\* column within it; the empty buffer at 0 gives {0, 0}, and o = length(b)
\* gives the last line with column = that line's length.
C18_PositionValidity ==
  (codec.from = "offset" /\ Len(codec.done) >= 1 /\ codec.o0 <= Len(codec.code))
    => LET b == codec.code
           o == codec.o0
           p == codec.pos
       IN /\ p.line = NewlinesBefore(b, o)
          /\ p.ch = o - LineStartOf(b, o)
          /\ p.line \in 0..(Len(Split(b)) - 1)
          /\ p.ch \in 0..Len(Split(b)[p.line + 1])
          /\ b = <<>> => p = [line |-> 0, ch |-> 0]
          /\ o = Len(b) => /\ p.line = Len(Split(b)) - 1
                           /\ p.ch = Len(Split(b)[Len(Split(b))])

\* The end of a buffer of several lines whose last line is not empty has
\* been converted.
C18_Witness ==
  /\ codec.from = "offset" /\ codec.done = <<"toPosition">>
  /\ codec.o0 = Len(codec.code)
  /\ codec.pos.line > 0 /\ codec.pos.ch > 0
  /\ codec.pos.line = Len(Split(codec.code)) - 1

\* ---- apply order, snapshot, save trigger
\* C12: apply order in FormatDocument: when the formatted text differs, the
\* scroll offset is captured first, then the content is replaced, then the
\* cursor is set (to the position of the engine's offset in the formatted
\* text), and last the scroll offset captured before the replacement is
\* restored.
C12_ApplyOrder ==
  [][ResumedChanged(last', Document) =>
       LET c == last'.calls
           f == last'.response.formatted
       IN /\ Len(c) = 4
          /\ c[1] = Call("getScrollInfo")
          /\ c[2] = CallText("setValue", f)
          /\ c[3].op = "setCursor"
          /\ ValidPosition(f, c[3].pos)
          /\ HostIndex(f, c[3].pos) = last'.response.cursorOffset
          /\ c[4].op = "scrollTo" /\ c[4].scroll = {editor.scroll}
          /\ editor'.value = f
          /\ editor'.head = c[3].pos
          /\ editor'.scroll = editor.scroll]_vars

\* A document has been replaced while scrolled down, and the cursor set on
\* its second line.
C12_Witness ==
  /\ ResumedChanged(last, Document)
  /\ Len(last.calls) = 4
  /\ editor.scroll.top # 0
  /\ editor.head.line > 0

\* C15: snapshot semantics: a FormatDocument invocation compares the engine's
\* output with the text it read before suspending, never with the buffer at
\* resume: equal to the text read, it changes nothing; different, the buffer
\* becomes the engine's output, whatever the buffer was at resume.
C15_Snapshot ==
  [][(last'.op = "resume" /\ last'.kind = Document) =>
       /\ last'.response.formatted = last'.inv.text => editor' = editor
       /\ last'.response.formatted # last'.inv.text =>
            /\ editor'.value = last'.response.formatted
            /\ "setValue" \in OpsOf(last'.calls)]_vars

\* The buffer was changed while the invocation was suspended, and the engine
\* returned the text the invocation had read: the changed buffer stays.
C15_Witness ==
  /\ last.op = "resume" /\ last.kind = Document
  /\ last.response.formatted = last.inv.text
  /\ editor.value # last.inv.text
  /\ last.calls = <<>>

\* C17: a save starts FormatDocument exactly when, at that save, formatOnSave
\* is true and a Markdown view is active; with the flag false the save calls
\* the original save and nothing else: no engine call, no editor write.
C17_SaveTrigger ==
  last.op = "save" =>
    /\ last.started # {} <=> (FormatOnSave /\ view)
    /\ CountOf(last.calls, "prettierFormatWithCursor") > 0 <=> (FormatOnSave /\ view)
    /\ OpsOf(last.calls) \cap EditorWrites = {}
    /\ ~FormatOnSave => OpsOf(last.calls) = {"save"}

\* A save of a non-empty buffer has started a FormatDocument on it.
C17_Witness ==
  /\ last.op = "save" /\ wrappers > 0 /\ FormatOnSave /\ view
  /\ editor.value # <<>>
  /\ \E i \in DOMAIN last.calls :
       last.calls[i].op = "prettierFormatWithCursor" /\ last.calls[i].text = editor.value

\* ---- overlapping invocations, repeated onload
\* C13: mutation only in the final apply step: a step writes to the editor
\* (buffer, cursor or scroll) only when it is the continuation of an
\* invocation whose engine call returned a result; the steps that start an
\* invocation (a command, a save) and the rejection of one leave the editor
\* as it was, whatever else is in flight.
C13_MutationOnlyOnApply ==
  [][/\ OpsOf(last'.calls) \cap EditorWrites # {} =>
          /\ last'.op = "resume"
          /\ last'.response.err = ""
          /\ \E s \in InFlight(pending) :
               pending[s] = last'.inv /\ pending'[s] = Free
     /\ last'.op \notin {"resume", "user"} => editor' = editor]_vars

\* A second FormatDocument has started, on a buffer with a selection, while
\* another invocation is in flight.
C13_Witness ==
  /\ last.op = "format" /\ last.kind = Document
  /\ Cardinality(InFlight(pending)) = 2
  /\ editor.anchor # editor.head

\* C14: overlapping invocations: a FormatDocument started while another
\* invocation is suspended starts at once, on the buffer as it is, and leaves
\* the suspended one as it was; the resolution or rejection of one invocation
\* leaves the others suspended; and an invocation that applies sets the buffer
\* to its own result, whatever is still in flight.
C14_OverlapLastWriteWins ==
  [][/\ (last'.op = "format" /\ last'.kind = Document /\ view
           /\ InFlight(pending) # {}) =>
          /\ last'.promise.state = "pending"
          /\ Cardinality(last'.started) = 1
          /\ \A s \in last'.started :
               /\ pending[s] = Free
               /\ pending'[s].kind = Document
               /\ pending'[s].text = editor.value
          /\ \A s \in InFlight(pending) : pending'[s] = pending[s]
     /\ last'.op \in {"resume", "reject"} =>
          \E s \in InFlight(pending) :
            pending[s] = last'.inv /\ pending' = [pending EXCEPT ![s] = Free]
     /\ ResumedChanged(last', Document) =>
          editor'.value = last'.response.formatted]_vars

\* An invocation has applied its result while another FormatDocument, started
\* on a different text, is still suspended.
C14_Witness ==
  /\ ResumedChanged(last, Document)
  /\ \E s \in InFlight(pending) :
       pending[s].kind = Document /\ pending[s].text # last.inv.text

\* C19: at most one format per save: a save starts FormatDocument at most
\* once, however often onload has run.
C19_AtMostOneFormatPerSave ==
  last.op = "save" => Cardinality(last.started) <= 1

\* ---- settings and options
\* C11: after loadSettings every key the stored data has carries the stored
\* value and every other key its default (formatOnSave false,
\* embeddedLanguageFormatting false, proseWrap preserve, printWidth 80); after
\* a change in the settings tab the stored data equals the settings.
C11_SettingsLoadAndSave ==
  /\ last.op = "onload" =>
       /\ DOMAIN settings =
            {"formatOnSave", "embeddedLanguageFormatting", "proseWrap", "printWidth"}
       /\ \A k \in DOMAIN data : settings[k] = data[k]
       /\ "formatOnSave" \notin DOMAIN data => settings["formatOnSave"] = FALSE
       /\ "embeddedLanguageFormatting" \notin DOMAIN data =>
            settings["embeddedLanguageFormatting"] = FALSE
       /\ "proseWrap" \notin DOMAIN data => settings["proseWrap"] = "preserve"
       /\ "printWidth" \notin DOMAIN data => settings["printWidth"] = 80
  /\ last.op = "setting" => data = settings

\* Settings have been loaded from stored data that has one key only, with a
\* value that is not the default.
C11_Witness ==
  /\ last.op = "onload"
  /\ DOMAIN data = {"proseWrap"}
  /\ data["proseWrap"] = "always"

\* C16: options are read live: every engine call of a step carries the
\* options built from the settings and the vault's configuration as they are
\* in that step: embeddedLanguageFormatting auto or off, proseWrap,
\* printWidth, useTabs (false when unset) and tabWidth (4 when unset).
C16_OptionsReadLive ==
  last.op \in {"format", "save"} =>
    \A i \in DOMAIN last.calls :
      last.calls[i].op \in EngineCalls =>
        last.calls[i].opts =
          {[embeddedLanguageFormatting |->
              IF settings["embeddedLanguageFormatting"] THEN "auto" ELSE "off",
            proseWrap |-> settings["proseWrap"],
            printWidth |-> settings["printWidth"],
            useTabs |-> IF "useTabs" \in DOMAIN config THEN config["useTabs"] ELSE FALSE,
            tabWidth |-> IF "tabSize" \in DOMAIN config THEN config["tabSize"] ELSE 4]}

\* An engine call has been made after the vault's configuration and the
\* settings were changed: its options carry the changed values.
C16_Witness ==
  /\ last.op = "format"
  /\ config # EmptyObject
  /\ \E i \in DOMAIN last.calls :
       last.calls[i].opts =
         {[embeddedLanguageFormatting |-> "auto", proseWrap |-> "always",
           printWidth |-> 120, useTabs |-> TRUE, tabWidth |-> 2]}

====
